---- MODULE Spec2Model ----
(***************************************************************************)
(* A model of ape_vyper.compiler._versions.base.BaseVyperCompiler:         *)
(*   - get_settings   (the settings resolver),  specification SpecSettings *)
(*   - compile        (the compilation driver), specification Spec         *)
(*   - the developer-message scan of compile,   specification SpecDev      *)
(*                                                                         *)
(* Strings are sequences of word tokens: "interfaces/b.vy" is              *)
(* <<"interfaces", "/", "b.vy">>, the empty string is << >>.  A Python     *)
(* value is a record [t, s]: its type tag and its str() form.              *)
(***************************************************************************)
EXTENDS Integers, Sequences, FiniteSets, TLC

VARIABLES
    \* ---- get_settings ----
    spc,               \* position of get_settings: "call" | "returned"
    version,           \* argument `version` (its base_version)
    source_paths,      \* argument `source_paths`, absolute paths, in order
    disk_files,        \* the source ids for which (pm.path / s).is_file()
    optimizations_map, \* get_optimization_pragma_map(...): source id -> value
    evm_version_map,   \* get_evm_version_pragma_map(...): source id -> str
    config_evm_version,\* self.config.evm_version
    output_selection,  \* local of get_settings: <<[key, files]>> in dict order
    version_settings,  \* the returned dict: <<[key, payload]>> in dict order
    \* ---- compile (a generator) ----
    cpc,               \* position: "idle" | "group" | "entries" | "done" |
                       \*           "raised" | "closed"
    suspended,         \* the generator waits for the consumer (before the
                       \* first step, or at the yield of line 173)
    settings,          \* argument `settings`: <<[key, settings_set]>> in order
    gi,                \* index in settings of the group the loop is at
    input_json,        \* the request of the last compiler call
    result,            \* what the last compiler call returned
    ei,                \* index in result["contracts"] of the current entry
    ci,                \* index in the entry's output_items of the contract
    yielded,           \* pairs yielded from the current result, each with
                       \* the index of its result entry and the src_map
                       \* that was handed to _get_pcmap
    yieldedKeys,       \* settings keys under which a pair was ever yielded
    invoked,           \* settings keys the compiler was called for, in order
    error,             \* the exception that left the generator, if any
    \* ---- the developer-message scan ----
    dpc,               \* position of the scan: "idle" | "read" | "scanned"
    text,              \* the source text under src_dict[source_id]["content"]
    dev_messages,      \* the dict the scan builds
    \* ---- _parse_ast ----
    apc,               \* position of _parse_ast: "idle" | "call" | "returned"
    ast_dict,          \* argument `ast`, the tree as the compiler gave it
    ast_model          \* the ASTNode tree _classify_ast works on in place

settingsVars == <<spc, version, source_paths, disk_files, optimizations_map,
                  evm_version_map, config_evm_version, output_selection,
                  version_settings>>

compileVars == <<cpc, suspended, settings, gi, input_json, result, ei, ci,
                 yielded, yieldedKeys, invoked, error>>

devVars == <<dpc, text, dev_messages>>

astVars == <<apc, ast_dict, ast_model>>

vars == <<settingsVars, compileVars, devVars, astVars>>

----------------------------------------------------------------------------
(* Bounds *)

MaxSources == 2

MaxGroups == 2

MaxEntries == 2

MaxTextLen == 5

MaxAstNodes == 4

----------------------------------------------------------------------------
(* Python values and strings *)

PyNone == [t |-> "none", s |-> <<"None">>]

PyTrue == [t |-> "bool", s |-> <<"True">>]

PyFalse == [t |-> "bool", s |-> <<"False">>]

PyStr(x) == [t |-> "str", s |-> x]

\* str(v), as an f-string formats it
StrOf(v) == v.s

\* bool(v): None, False and the empty string are falsy
Truthy(v) == v # PyNone /\ v # PyFalse /\ v # PyStr(<< >>)

\* str.lower() on one word
LowerTok(t) ==
    CASE t = "True" -> "true"
      [] t = "False" -> "false"
      [] t = "None" -> "none"
      [] t = "NULL" -> "null"
      [] t = "Shanghai" -> "shanghai"
      [] OTHER -> t

\* str.lower()
Lower(str) == [i \in 1..Len(str) |-> LowerTok(str[i])]

RECURSIVE SplitFrom(_, _, _, _)
SplitFrom(str, sep, i, cur) ==
    IF i > Len(str) THEN <<cur>>
    ELSE IF str[i] = sep THEN <<cur>> \o SplitFrom(str, sep, i + 1, << >>)
    ELSE SplitFrom(str, sep, i + 1, Append(cur, str[i]))

\* str.split(sep)
Split(str, sep) == SplitFrom(str, sep, 1, << >>)

\* dict.get(key, default) on a function used as a dict
DictGet(d, key, default) == IF key \in DOMAIN d THEN d[key] ELSE default

Range(f) == {f[i] : i \in DOMAIN f}

RECURSIVE SeqsUpTo(_, _)
\* sequences over S of length at most n
SeqsUpTo(S, n) ==
    IF n = 0 THEN {<< >>}
    ELSE LET shorter == SeqsUpTo(S, n - 1)
         IN  shorter \cup
             {Append(q, x) : q \in {r \in shorter : Len(r) = n - 1}, x \in S}

DistinctOnly(Q) == {q \in Q : \A i, j \in 1..Len(q) : i # j => q[i] # q[j]}

\* partial functions from S to V
PartialFns(S, V) == UNION {[D -> V] : D \in SUBSET S}

----------------------------------------------------------------------------
(* Paths *)

\* pm.path, the project root
ProjectPath == <<"/", "proj">>

\* Path.is_absolute()
IsAbsolute(p) == p # << >> /\ p[1] = "/"

\* Path.parts without the root: the non-empty pieces between separators
Components(p) == SelectSeq(Split(p, "/"), LAMBDA c : c # << >>)

RECURSIVE JoinFrom(_, _)
JoinFrom(parts, i) ==
    IF i > Len(parts) THEN << >>
    ELSE IF i = Len(parts) THEN parts[i]
    ELSE parts[i] \o <<"/">> \o JoinFrom(parts, i + 1)

\* "/".join(parts)
JoinParts(parts) == JoinFrom(parts, 1)

\* base / p  (pathlib: an absolute right operand replaces the left one)
PathJoin(base, p) == IF IsAbsolute(p) THEN p ELSE base \o <<"/">> \o p

\* Path.parent
Parent(p) ==
    LET cs == Components(p)
        up == JoinParts(SubSeq(cs, 1, Len(cs) - 1))
    IN  IF IsAbsolute(p) THEN <<"/">> \o up ELSE up

RECURSIVE CommonPrefixLen(_, _, _)
CommonPrefixLen(a, b, k) ==
    IF k < Len(a) /\ k < Len(b) /\ a[k + 1] = b[k + 1]
    THEN CommonPrefixLen(a, b, k + 1)
    ELSE k

\* ape.utils.get_relative_path(target, anchor), both absolute
get_relative_path(target, anchor) ==
    LET tc == Components(target)
        ac == Components(anchor)
        k == CommonPrefixLen(tc, ac, 0)
        ups == [i \in 1..(Len(ac) - k) |-> <<"..">>]
    IN  JoinParts(ups \o SubSeq(tc, k + 1, Len(tc)))

\* `"interfaces" in word`: the words that contain the substring
WordHasInterfaces(w) == w \in {"interfaces", "myinterfaces.vy"}

\* `"interfaces" in s` on a string: the substring holds no separator, so it
\* lies inside one word
HasInterfacesSubstring(str) == \E i \in 1..Len(str) : WordHasInterfaces(str[i])

----------------------------------------------------------------------------
(* get_settings *)

\* source ids (project-relative) that get_settings is called with
SettingsSourceIds ==
    { <<"a.vy">>, <<"interfaces", "/", "b.vy">>, <<"myinterfaces.vy">> }

Versions == {"0.3.7", "0.1.0"}

\* values of the optimization pragma table (Optimization = Union[str, bool])
OptimizationValues == {PyTrue, PyFalse, PyStr(<<"gas">>)}

\* values of the evm-version pragma table
EvmVersionValues == {PyStr(<<"Shanghai">>), PyStr(<<"NULL">>), PyStr(<< >>)}

ConfigEvmVersions == {PyNone, PyStr(<<"shanghai">>)}

\* ape_vyper._utils.EVM_VERSION_DEFAULT
EVM_VERSION_DEFAULT == [v \in {"0.3.7"} |-> PyStr(<<"paris">>)]

\* str(get_relative_path(source_path.absolute(), pm.path))
SourceIdOf(source_path) == get_relative_path(source_path, ProjectPath)

get_default_optimization(vyper_version) == PyTrue

get_evm_version(vyper_version) ==
    IF Truthy(config_evm_version) THEN config_evm_version
    ELSE DictGet(EVM_VERSION_DEFAULT, vyper_version, PyNone)

get_output_format == <<"*">>

\* lines 205-206
ResolveOptimization(source_id) ==
    LET optimization == DictGet(optimizations_map, source_id, PyNone)
    IN  IF ~Truthy(optimization) THEN get_default_optimization(version)
        ELSE optimization

\* line 208
ResolveEvmVersion(source_id) ==
    DictGet(evm_version_map, source_id, get_evm_version(version))

\* line 209
settings_key(optimization, evm_version) ==
    Lower(StrOf(optimization) \o <<"%">> \o StrOf(evm_version))

KeyIndex(dict, key) ==
    IF \E i \in 1..Len(dict) : dict[i].key = key
    THEN CHOOSE i \in 1..Len(dict) : dict[i].key = key
    ELSE 0

\* AddToSelection with line 213 assigning instead of adding
AddToSelectionOverwrite(dict, key, source_id) ==
    LET i == KeyIndex(dict, key)
    IN  IF i = 0 THEN Append(dict, [key |-> key, files |-> {source_id}])
        ELSE [dict EXCEPT ![i].files = {source_id}]

\* lines 210-213
AddToSelection(dict, key, source_id) ==
    LET i == KeyIndex(dict, key)
    IN  IF i = 0 THEN Append(dict, [key |-> key, files |-> {source_id}])
        ELSE [dict EXCEPT ![i].files = @ \cup {source_id}]

RECURSIVE GroupSources(_, _, _)
\* lines 202-213
GroupSources(paths, i, dict) ==
    IF i > Len(paths) THEN dict
    ELSE LET source_id == SourceIdOf(paths[i])
             key == settings_key(ResolveOptimization(source_id),
                                 ResolveEvmVersion(source_id))
         IN  GroupSources(paths, i + 1, AddToSelection(dict, key, source_id))

\* (pm.path / s).is_file()
IsFile(p) == \E s \in disk_files : PathJoin(ProjectPath, s) = p

\* _get_selection_dictionary
get_selection_dictionary(selection) ==
    [s \in {x \in selection : IsFile(PathJoin(ProjectPath, x))
                              /\ ~HasInterfacesSubstring(x)}
       |-> get_output_format]

\* lines 217-221
ParseOptimization(str) ==
    IF str = <<"true">> THEN PyTrue
    ELSE IF str = <<"false">> THEN PyFalse
    ELSE PyStr(str)

\* AttachEvmVersion without the sentinel test
AttachEvmVersionNoSentinel(evm_version) == evm_version # << >>

\* line 231
AttachEvmVersion(evm_version) ==
    evm_version # << >> /\ evm_version \notin {<<"none">>, <<"null">>}

search_paths == <<"site-packages", ".">>

\* lines 216-232, one settings key
SettingsPayload(key, selection) ==
    LET parts == Split(key, "%")
        optimization == ParseOptimization(parts[1])
        evm_version == parts[2]
        base == [optimize |-> optimization,
                 outputSelection |-> get_selection_dictionary(selection),
                 search_paths |-> search_paths]
    IN  IF AttachEvmVersion(evm_version)
        THEN [optimize |-> base.optimize,
              outputSelection |-> base.outputSelection,
              search_paths |-> base.search_paths,
              evmVersion |-> evm_version]
        ELSE base

\* lines 215-234
BuildVersionSettings(dict) ==
    [i \in 1..Len(dict) |->
        [key |-> dict[i].key,
         payload |-> SettingsPayload(dict[i].key, dict[i].files)]]

\* get_settings, the whole call
GetSettings ==
    /\ spc = "call"
    /\ output_selection' = GroupSources(source_paths, 1, << >>)
    /\ version_settings' = BuildVersionSettings(output_selection')
    /\ spc' = "returned"
    /\ UNCHANGED <<version, source_paths, disk_files, optimizations_map,
                   evm_version_map, config_evm_version>>
    /\ UNCHANGED <<compileVars, devVars, astVars>>

----------------------------------------------------------------------------
(* The developer-message scan (compile, lines 141-145) *)

DropLastEmpty(lines) ==
    IF lines # << >> /\ lines[Len(lines)] = << >>
    THEN SubSeq(lines, 1, Len(lines) - 1)
    ELSE lines

\* ethpm_types Content.model_validate(text): the lines of the text, numbered
\* from 1 (str.splitlines: a final line break opens no further line)
ContentOf(txt) == DropLastEmpty(Split(txt, "\n"))

\* the position where DEV_MSG_PATTERN's group starts in a line, 0 for no
\* match: the last "dev:" that has at least one character after it
MarkerPos(line) ==
    LET hits == {i \in 1..(Len(line) - 1) : line[i] = "dev:"}
    IN  IF hits = {} THEN 0 ELSE CHOOSE i \in hits : \A j \in hits : j <= i

\* re.search(DEV_MSG_PATTERN, line) is not None
DevMatch(line) == MarkerPos(line) # 0

\* match.group(1)
DevGroup(line) == SubSeq(line, MarkerPos(line), Len(line))

IsSpace(w) == w = " "

RECURSIVE LStrip(_)
LStrip(str) ==
    IF str # << >> /\ IsSpace(Head(str)) THEN LStrip(Tail(str)) ELSE str

RECURSIVE RStrip(_)
RStrip(str) ==
    IF str # << >> /\ IsSpace(str[Len(str)])
    THEN RStrip(SubSeq(str, 1, Len(str) - 1))
    ELSE str

\* str.strip()
Strip(str) == LStrip(RStrip(str))

\* DevMessages without the strip() of line 145
DevMessagesUnstripped(content) ==
    [line_no \in {n \in 1..Len(content) : DevMatch(content[n])}
        |-> DevGroup(content[line_no])]

\* lines 142-145: dev_messages, a dict line number -> text
DevMessages(content) ==
    [line_no \in {n \in 1..Len(content) : DevMatch(content[n])}
        |-> Strip(DevGroup(content[line_no]))]

\* lines 118 and 141-145 for one source text
ScanDevMessages ==
    /\ dpc = "read"
    /\ dev_messages' = DevMessages(ContentOf(text))
    /\ dpc' = "scanned"
    /\ UNCHANGED text
    /\ UNCHANGED <<settingsVars, compileVars, astVars>>

----------------------------------------------------------------------------
(* The AST and the source map *)

\* ape_vyper._utils.FUNCTION_AST_TYPES
FUNCTION_AST_TYPES == {"FunctionDef", "Name", "arguments"}

\* classify_ast without the recursion of lines 240-241
classify_ast_shallow(node) ==
    [ast_type |-> node.ast_type,
     lineno |-> node.lineno,
     end_lineno |-> node.end_lineno,
     classification |-> IF node.ast_type \in FUNCTION_AST_TYPES
                        THEN "FUNCTION" ELSE node.classification,
     children |-> node.children]

RECURSIVE classify_ast(_)
\* _classify_ast: the node after the in-place classification
classify_ast(node) ==
    [ast_type |-> node.ast_type,
     lineno |-> node.lineno,
     end_lineno |-> node.end_lineno,
     classification |-> IF node.ast_type \in FUNCTION_AST_TYPES
                        THEN "FUNCTION" ELSE node.classification,
     children |-> [i \in 1..Len(node.children) |-> classify_ast(node.children[i])]]

\* _parse_ast (the function offsets it collects are dropped by the code)
parse_ast(ast, content) == classify_ast(ast)

\* what a node carries besides its children: type tag, line span and the
\* classification it has when _classify_ast reaches it
AstLabels ==
    { [ast_type |-> "Module", lineno |-> 1, end_lineno |-> 9, classification |-> "None"],
      [ast_type |-> "FunctionDef", lineno |-> 2, end_lineno |-> 4, classification |-> "None"],
      [ast_type |-> "FunctionDef", lineno |-> 5, end_lineno |-> 5, classification |-> "FUNCTION"],
      [ast_type |-> "Name", lineno |-> 3, end_lineno |-> 3, classification |-> "None"],
      [ast_type |-> "Return", lineno |-> 4, end_lineno |-> 4, classification |-> "None"],
      [ast_type |-> "Return", lineno |-> 6, end_lineno |-> 6, classification |-> "FUNCTION"] }

AstNode(label, children) ==
    [ast_type |-> label.ast_type, lineno |-> label.lineno,
     end_lineno |-> label.end_lineno, classification |-> label.classification,
     children |-> children]

RECURSIVE AstForests(_)
\* the child sequences with n nodes in all
AstForests(n) ==
    IF n = 0 THEN {<< >>}
    ELSE UNION { { <<AstNode(l, kids)>> \o rest :
                      l \in AstLabels, kids \in AstForests(k - 1),
                      rest \in AstForests(n - k) } : k \in 1..n }

\* the trees with n nodes
AstTrees(n) == {AstNode(l, kids) : l \in AstLabels, kids \in AstForests(n - 1)}

\* _parse_ast: the tree is validated into ast_model, classified in place
\* and returned
ParseAst ==
    /\ apc = "call"
    /\ ast_model' = parse_ast(ast_dict, << >>)
    /\ apc' = "returned"
    /\ UNCHANGED ast_dict
    /\ UNCHANGED <<settingsVars, compileVars, devVars>>

\* no AST (None), in the shape of a node
NoAst ==
    [ast_type |-> "None", lineno |-> 0, end_lineno |-> 0,
     classification |-> "None", children |-> << >>]

\* ethpm_types SourceMap.parse(): one item per ";"-separated field
ParseSourceMap(root) == Split(root, ";")

\* DecompressSourceMap without the [1:] of line 132
DecompressSourceMapWhole(runtime_bytecode) ==
    IF "sourceMap" \in DOMAIN runtime_bytecode
    THEN [present |-> TRUE, items |-> ParseSourceMap(runtime_bytecode.sourceMap)]
    ELSE [present |-> FALSE, items |-> << >>]

\* lines 130-132 and 138: the local src_map, the parsed source map without
\* its first item, or None
DecompressSourceMap(runtime_bytecode) ==
    IF "sourceMap" \in DOMAIN runtime_bytecode
    THEN [present |-> TRUE,
          items |-> Tail(ParseSourceMap(runtime_bytecode.sourceMap))]
    ELSE [present |-> FALSE, items |-> << >>]

\* _get_pcmap: get_pcmap(bytecode), of the runtime bytecode alone
get_pcmap(vyper_version, ast, src_map, opcodes, bytecode) ==
    [present |-> TRUE, bytecode |-> bytecode.object]

----------------------------------------------------------------------------
(* compile *)

\* what read_text gives for each file of the project
FileText(source_id) ==
    IF source_id = <<"a.vy">>
    THEN <<"x", "\n", "x", " ", "dev:", " ", "x", " ", "\n", "dev:">>
    ELSE IF source_id = <<"/", "abs", "/", "d.vy">>
    THEN <<"dev:", "x", "\n">>
    ELSE <<"x">>

\* the keys of the settings map, in its order
SettingsKeys ==
    << <<"true", "%", "paris">>, <<"gas", "%", "none">>,
       <<"false", "%", "shanghai">>, <<"true", "%", "none">> >>

\* outputSelection dicts a settings set may carry
SelectionChoices ==
    { {},
      {<<"a.vy">>, <<"interfaces", "/", "b.vy">>},
      {<<"interfaces", "/", "sub", "/", "c.vy">>},
      {<<"a.vy">>, <<"/", "abs", "/", "d.vy">>} }

\* the settings sets: with an outputSelection, or without the field
SettingsSets ==
    {[optimize |-> PyTrue, outputSelection |-> [s \in sel |-> get_output_format]] :
        sel \in SelectionChoices}
    \cup {[optimize |-> PyTrue]}

\* get_import_remapping: the project has one dependency with one contract
get_import_remapping ==
    [f \in {<<"exampledep", "/", "Dependency.json">>} |-> [abi |-> << >>]]

\* line 253, the test a source id passes to enter the sources dictionary
NotInterfacesChild(src_id) ==
    Parent(PathJoin(ProjectPath, src_id)) # PathJoin(ProjectPath, <<"interfaces">>)

\* _get_sources_dictionary
get_sources_dictionary(source_ids) ==
    [s \in {x \in source_ids : NotInterfacesChild(x)} |-> [content |-> FileText(s)]]

\* lines 90-97
InputJson(settings_set, src_dict) ==
    LET interfaces == get_import_remapping
    IN  IF interfaces # << >>
        THEN [language |-> "Vyper", settings |-> settings_set,
              sources |-> src_dict, interfaces |-> interfaces]
        ELSE [language |-> "Vyper", settings |-> settings_set,
              sources |-> src_dict]

\* settings_set.get("outputSelection", {})
OutputSelectionOf(settings_set) ==
    IF "outputSelection" \in DOMAIN settings_set
    THEN settings_set.outputSelection ELSE << >>

(* ---- the external compiler: what vvm_compile_standard may return ---- *)

\* the runtime bytecode of a contract, with or without a source map
BytecodeWithMap ==
    [object |-> "0x01", opcodes |-> <<"PUSH1", " ", "STOP">>,
     sourceMap |-> <<"-1:-1:0", ";", "0:5:0", ";", "6:2:0">>]

BytecodeNoMap == [object |-> "0x02", opcodes |-> <<"STOP">>]

ContractOutput(name, bytecode) ==
    [name |-> name, output |-> [abi |-> << >>, evm |-> [deployedBytecode |-> bytecode]]]

\* the output_items of one source, in the order the compiler gives them
ItemChoices ==
    { <<ContractOutput("A", BytecodeWithMap)>>,
      <<ContractOutput("B", BytecodeNoMap), ContractOutput("A", BytecodeWithMap)>> }

\* a source id as Vyper 0.3.0 may report it: without the leading separator
Unprefixed(source_id) == IF IsAbsolute(source_id) THEN Tail(source_id) ELSE source_id

\* the source ids a result may name for a request: those requested, their
\* unprefixed forms, and one the request does not hold
ResultIds(src_dict) ==
    DOMAIN src_dict \cup {Unprefixed(s) : s \in DOMAIN src_dict} \cup {<<"zzz.vy">>}

ModuleAst ==
    [ast_type |-> "Module", lineno |-> 1, end_lineno |-> 3,
     classification |-> "None",
     children |-> << [ast_type |-> "FunctionDef", lineno |-> 2, end_lineno |-> 3,
                      classification |-> "None", children |-> << >>] >>]

\* line 110-116: the key of src_dict a result's source id stands for
\* (<< >> when the entry is to be skipped)
Reconcile(source_id, src_dict) ==
    IF source_id \in DOMAIN src_dict THEN source_id
    ELSE IF (<<"/">> \o source_id) \in DOMAIN src_dict THEN <<"/">> \o source_id
    ELSE << >>

\* result["sources"]: keyed as result["contracts"] or by the request's ids,
\* with an AST for every source or for none
SourcesSections(ids, src_dict) ==
    { [s \in ids |-> [id |-> 0, ast |-> ModuleAst]],
      [s \in ids |-> [id |-> 0]],
      [s \in {IF Reconcile(x, src_dict) # << >> THEN Reconcile(x, src_dict) ELSE x :
                 x \in ids} |-> [id |-> 0, ast |-> ModuleAst]] }

CompilerResults(src_dict) ==
    UNION { { [contracts |-> [i \in 1..Len(ids) |->
                                 [source_id |-> ids[i], output_items |-> items[i]]],
               sources |-> ss] :
                 items \in {q \in SeqsUpTo(ItemChoices, MaxEntries) : Len(q) = Len(ids)},
                 ss \in SourcesSections(Range(ids), src_dict) } :
            ids \in DistinctOnly(SeqsUpTo(ResultIds(src_dict), MaxEntries)) }

\* the errors the compiler reports (vvm.exceptions.VyperError)
VyperErrors == {[type |-> "VyperError", message |-> "SyntaxException"]}

NoError == [type |-> "None", cause |-> [type |-> "None", message |-> ""]]

\* VyperCompileError with its cause unset (a bare raise outside the handler)
VyperCompileErrorNoCause(err) ==
    [type |-> "VyperCompileError", cause |-> [type |-> "None", message |-> ""]]

\* line 107: raise VyperCompileError(err) from err
VyperCompileError(err) == [type |-> "VyperCompileError", cause |-> err]

FileNotFoundError ==
    [type |-> "FileNotFoundError", cause |-> [type |-> "None", message |-> ""]]

KeyError == [type |-> "KeyError", cause |-> [type |-> "None", message |-> ""]]

NoRequest ==
    [language |-> "None", settings |-> [optimize |-> PyTrue], sources |-> << >>]

NoResult == [contracts |-> << >>, sources |-> << >>]

NoSourceMap == [present |-> FALSE, root |-> << >>]

NoPcmap == [present |-> FALSE, bytecode |-> "None"]

\* lines 147-151
FinalSourceId(source_id) ==
    IF IsAbsolute(source_id) THEN get_relative_path(source_id, ProjectPath)
    ELSE source_id

\* lines 118-172: the ContractType of one named contract of a matched entry
MakeContractType(source_id, item, res, src_dict) ==
    LET content == ContentOf(src_dict[source_id].content)
        ast == IF "ast" \in DOMAIN res.sources[source_id]
               THEN parse_ast(res.sources[source_id].ast, content)
               ELSE NoAst
        runtime_bytecode == item.output.evm.deployedBytecode
        has_map == "sourceMap" \in DOMAIN runtime_bytecode
        src_map == DecompressSourceMap(runtime_bytecode).items
    IN  [ast |-> ast,
         contractName |-> item.name,
         sourceId |-> FinalSourceId(source_id),
         runtimeBytecode |-> runtime_bytecode.object,
         abi |-> item.output.abi,
         sourcemap |-> IF has_map
                       THEN [present |-> TRUE, root |-> runtime_bytecode.sourceMap]
                       ELSE NoSourceMap,
         pcmap |-> IF has_map
                   THEN get_pcmap("version", ast, src_map,
                                  Split(runtime_bytecode.opcodes, " "),
                                  runtime_bytecode)
                   ELSE NoPcmap,
         dev_messages |-> DevMessages(content)]

\* the group, the entry and the contract the loops are at
CurGroup == settings[gi]

src_dict == input_json.sources

CurEntry == result.contracts[ei]

CurSourceId == Reconcile(CurEntry.source_id, src_dict)

\* the contract of the entry in reverse of the order the compiler gave
CurItemReversed == CurEntry.output_items[Len(CurEntry.output_items) + 1 - ci]

\* line 119: the contract the inner loop is at, in the dict's order
CurItem == CurEntry.output_items[ci]

\* the position after the contract at (e, c): the next contract of the entry,
\* or the start of the next entry
AfterContract(e, c) ==
    IF c < Len(result.contracts[e].output_items) THEN <<e, c + 1>> ELSE <<e + 1, 1>>

AtGroup ==
    /\ cpc = "group"
    /\ gi <= Len(settings)

\* lines 81-82: a group without output selection is passed over
SkipGroup ==
    /\ AtGroup
    /\ OutputSelectionOf(CurGroup.settings_set) = << >>
    /\ gi' = gi + 1
    /\ suspended' = FALSE
    /\ UNCHANGED <<cpc, settings, input_json, result, ei, ci, yielded, yieldedKeys,
                   invoked, error>>
    /\ UNCHANGED <<settingsVars, devVars, astVars>>

\* lines 84-105: the sources are read and the compiler returns a result
InvokeCompiler ==
    /\ AtGroup
    /\ OutputSelectionOf(CurGroup.settings_set) # << >>
    /\ LET sources == get_sources_dictionary(DOMAIN OutputSelectionOf(CurGroup.settings_set))
       IN  /\ input_json' = InputJson(CurGroup.settings_set, sources)
           /\ result' \in CompilerResults(sources)
    /\ invoked' = Append(invoked, CurGroup.key)
    /\ yielded' = << >>
    /\ ei' = 1
    /\ ci' = 1
    /\ cpc' = "entries"
    /\ suspended' = FALSE
    /\ UNCHANGED <<settings, gi, yieldedKeys, error>>
    /\ UNCHANGED <<settingsVars, devVars, astVars>>

\* CompilerFails with the error caught and the loop going on
CompilerFailsContinue ==
    /\ AtGroup
    /\ OutputSelectionOf(CurGroup.settings_set) # << >>
    /\ LET sources == get_sources_dictionary(DOMAIN OutputSelectionOf(CurGroup.settings_set))
       IN  input_json' = InputJson(CurGroup.settings_set, sources)
    /\ invoked' = Append(invoked, CurGroup.key)
    /\ \E err \in VyperErrors : error' = VyperCompileError(err)
    /\ gi' = gi + 1
    /\ suspended' = FALSE
    /\ UNCHANGED <<cpc, settings, result, ei, ci, yielded, yieldedKeys>>
    /\ UNCHANGED <<settingsVars, devVars, astVars>>

\* lines 102-107: the compiler reports a fatal error
CompilerFails ==
    /\ AtGroup
    /\ OutputSelectionOf(CurGroup.settings_set) # << >>
    /\ LET sources == get_sources_dictionary(DOMAIN OutputSelectionOf(CurGroup.settings_set))
       IN  input_json' = InputJson(CurGroup.settings_set, sources)
    /\ invoked' = Append(invoked, CurGroup.key)
    /\ \E err \in VyperErrors : error' = VyperCompileError(err)
    /\ cpc' = "raised"
    /\ suspended' = FALSE
    /\ UNCHANGED <<settings, gi, result, ei, ci, yielded, yieldedKeys>>
    /\ UNCHANGED <<settingsVars, devVars, astVars>>

\* line 251: read_text of a selected file that is not on disk
ReadFails ==
    /\ AtGroup
    /\ get_sources_dictionary(DOMAIN OutputSelectionOf(CurGroup.settings_set)) # << >>
    /\ error' = FileNotFoundError
    /\ cpc' = "raised"
    /\ suspended' = FALSE
    /\ UNCHANGED <<settings, gi, input_json, result, ei, ci, yielded, yieldedKeys,
                   invoked>>
    /\ UNCHANGED <<settingsVars, devVars, astVars>>

\* line 80: the settings are exhausted, the generator returns
Finish ==
    /\ cpc = "group"
    /\ gi > Len(settings)
    /\ cpc' = "done"
    /\ suspended' = FALSE
    /\ UNCHANGED <<settings, gi, input_json, result, ei, ci, yielded, yieldedKeys,
                   invoked, error>>
    /\ UNCHANGED <<settingsVars, devVars, astVars>>

AtEntry ==
    /\ cpc = "entries"
    /\ ei <= Len(result.contracts)

\* DropEntry with the unmatched entry raising instead of being passed over
DropEntryRaises ==
    /\ AtEntry
    /\ CurSourceId = << >>
    /\ error' = KeyError
    /\ cpc' = "raised"
    /\ suspended' = FALSE
    /\ UNCHANGED <<settings, gi, input_json, result, ei, ci, yielded, yieldedKeys,
                   invoked>>
    /\ UNCHANGED <<settingsVars, devVars, astVars>>

\* lines 110-116: an entry that matches no requested source is passed over
DropEntry ==
    /\ AtEntry
    /\ CurSourceId = << >>
    /\ ei' = ei + 1
    /\ ci' = 1
    /\ suspended' = FALSE
    /\ UNCHANGED <<cpc, settings, gi, input_json, result, yielded, yieldedKeys,
                   invoked, error>>
    /\ UNCHANGED <<settingsVars, devVars, astVars>>

\* lines 118-173: one contract of a matched entry is built and yielded
YieldArtifact ==
    /\ AtEntry
    /\ CurSourceId # << >>
    /\ CurSourceId \in DOMAIN result.sources
    /\ yielded' = Append(yielded,
           [contract_type |-> MakeContractType(CurSourceId, CurItem, result, src_dict),
            settings_key |-> CurGroup.key,
            entry |-> ei,
            src_map |-> DecompressSourceMap(CurItem.output.evm.deployedBytecode)])
    /\ yieldedKeys' = yieldedKeys \cup {CurGroup.key}
    /\ ei' = AfterContract(ei, ci)[1]
    /\ ci' = AfterContract(ei, ci)[2]
    /\ suspended' = TRUE
    /\ UNCHANGED <<cpc, settings, gi, input_json, result, invoked, error>>
    /\ UNCHANGED <<settingsVars, devVars, astVars>>

\* line 121: result["sources"] has no item for the reconciled source id
SourcesKeyError ==
    /\ AtEntry
    /\ CurSourceId # << >>
    /\ CurSourceId \notin DOMAIN result.sources
    /\ error' = KeyError
    /\ cpc' = "raised"
    /\ suspended' = FALSE
    /\ UNCHANGED <<settings, gi, input_json, result, ei, ci, yielded, yieldedKeys,
                   invoked>>
    /\ UNCHANGED <<settingsVars, devVars, astVars>>

\* EndGroup leaving the loop over the result before its last entry
EndGroupEarly ==
    /\ cpc = "entries"
    /\ gi' = gi + 1
    /\ cpc' = "group"
    /\ input_json' = NoRequest
    /\ result' = NoResult
    /\ ei' = 1
    /\ ci' = 1
    /\ yielded' = << >>
    /\ suspended' = FALSE
    /\ UNCHANGED <<settings, yieldedKeys, invoked, error>>
    /\ UNCHANGED <<settingsVars, devVars, astVars>>

\* line 109: the result's entries are exhausted, on to the next group (the
\* locals of the finished iteration are dead: they are rebound before any
\* further read, and are cleared here)
EndGroup ==
    /\ cpc = "entries"
    /\ ei > Len(result.contracts)
    /\ gi' = gi + 1
    /\ cpc' = "group"
    /\ input_json' = NoRequest
    /\ result' = NoResult
    /\ ei' = 1
    /\ ci' = 1
    /\ yielded' = << >>
    /\ suspended' = FALSE
    /\ UNCHANGED <<settings, yieldedKeys, invoked, error>>
    /\ UNCHANGED <<settingsVars, devVars, astVars>>

\* the consumer stops consuming: the suspended generator is closed
Close ==
    /\ suspended
    /\ cpc \in {"group", "entries"}
    /\ cpc' = "closed"
    /\ UNCHANGED <<suspended, settings, gi, input_json, result, ei, ci, yielded,
                   yieldedKeys, invoked, error>>
    /\ UNCHANGED <<settingsVars, devVars, astVars>>

----------------------------------------------------------------------------
(* Properties of get_settings *)

\* s names a file inside a directory called "interfaces", at any depth
InsideInterfacesDir(str) ==
    LET cs == Components(str)
    IN  \E i \in 1..(Len(cs) - 1) : cs[i] = <<"interfaces">>

SourceIds == {SourceIdOf(source_paths[i]) : i \in 1..Len(source_paths)}

Groups == 1..Len(output_selection)

\* the (optimization, runtime-version) pair lines 205-208 resolve for a source
ResolvedPair(s) == <<ResolveOptimization(s), ResolveEvmVersion(s)>>

\* C1: after get_settings, every source id lies in the file set of exactly
\* one settings key, and two sources with equal resolved
\* (optimization, runtime-version) pairs lie under the same key.
C1_ExactlyOneGroup ==
    spc = "returned" =>
        /\ \A s \in SourceIds :
              Cardinality({g \in Groups : s \in output_selection[g].files}) = 1
        /\ \A s, t \in SourceIds :
              ResolvedPair(s) = ResolvedPair(t) =>
                 \E g \in Groups : {s, t} \subseteq output_selection[g].files
        /\ \A g, h \in Groups :
              output_selection[g].key = output_selection[h].key => g = h

\* two sources reach the same pair, one by its pragma entry and one by the
\* default, and share a group
C1_Witness ==
    /\ spc = "returned"
    /\ \E s, t \in SourceIds :
          /\ s # t
          /\ s \in DOMAIN optimizations_map
          /\ t \notin DOMAIN optimizations_map
          /\ ResolvedPair(s) = ResolvedPair(t)
          /\ \E g \in Groups : {s, t} \subseteq output_selection[g].files

\* the optimization value the claim expects for a source: its table entry
\* whenever it has one, the version default otherwise
C6_Expected(s) ==
    IF s \in DOMAIN optimizations_map THEN optimizations_map[s]
    ELSE get_default_optimization(version)

\* C6: the optimization value used for a source (the "optimize" of the group
\* it is accumulated under) is its entry in the optimization pragma table
\* whenever it has one, whatever the entry's value, boolean false included,
\* and the version default only when it has none.
C6_TableEntryAlwaysUsed ==
    spc = "returned" =>
        \A s \in SourceIds : \A g \in Groups :
            s \in output_selection[g].files =>
                version_settings[g].payload.optimize
                    = ParseOptimization(Lower(StrOf(C6_Expected(s))))

\* C7: the keys of a group's outputSelection are exactly the group's files
\* that exist on disk and are not inside an "interfaces" directory.
C7_SelectionIsExistingNonInterface ==
    spc = "returned" =>
        \A g \in Groups :
            DOMAIN version_settings[g].payload.outputSelection
                = {s \in output_selection[g].files :
                      s \in disk_files /\ ~InsideInterfacesDir(s)}

\* the runtime version the claim gives a source: its pragma entry, else the
\* configured default, else the version's default, else unset
C9_RuntimeVersion(s) ==
    IF s \in DOMAIN evm_version_map THEN evm_version_map[s]
    ELSE IF Truthy(config_evm_version) THEN config_evm_version
    ELSE IF version \in DOMAIN EVM_VERSION_DEFAULT THEN EVM_VERSION_DEFAULT[version]
    ELSE PyNone

\* a concrete runtime version: set, non-empty, and not "none"/"null"
C9_Concrete(v) ==
    /\ v # PyNone
    /\ StrOf(v) # << >>
    /\ Lower(StrOf(v)) \notin {<<"none">>, <<"null">>}

\* C9: a source's runtime version is its pragma entry, else the
\* configured/version default, else unset; a group's payload has evmVersion
\* exactly when that runtime version is concrete, and the field then equals
\* it up to letter case.
C9_EvmVersionAttached ==
    spc = "returned" =>
        \A s \in SourceIds : \A g \in Groups :
            s \in output_selection[g].files =>
                LET v == C9_RuntimeVersion(s)
                    payload == version_settings[g].payload
                IN  /\ Split(output_selection[g].key, "%")[2] = Lower(StrOf(v))
                    /\ ("evmVersion" \in DOMAIN payload) <=> C9_Concrete(v)
                    /\ C9_Concrete(v) =>
                          Lower(payload.evmVersion) = Lower(StrOf(v))

\* one group carries "shanghai" for a source whose pragma spells it
\* "Shanghai", and another group, resolved to a sentinel, carries none
C9_Witness ==
    /\ spc = "returned"
    /\ \E g, h \in Groups :
          /\ "evmVersion" \in DOMAIN version_settings[g].payload
          /\ version_settings[g].payload.evmVersion = <<"shanghai">>
          /\ \E s \in output_selection[g].files :
                /\ s \in DOMAIN evm_version_map
                /\ evm_version_map[s] = PyStr(<<"Shanghai">>)
          /\ "evmVersion" \notin DOMAIN version_settings[h].payload
          /\ \E s \in output_selection[h].files :
                Lower(StrOf(C9_RuntimeVersion(s))) \in {<<"none">>, <<"null">>}

----------------------------------------------------------------------------
(* Properties of compile *)

Last(q) == q[Len(q)]

HasSelection(i) == OutputSelectionOf(settings[i].settings_set) # << >>

\* the result entry e names a source the request does not hold, neither as
\* returned nor with a separator prefixed
Unmatched(e) ==
    LET id == result.contracts[e].source_id
    IN  /\ id \notin DOMAIN src_dict
        /\ (<<"/">> \o id) \notin DOMAIN src_dict

YieldedOf(e) == SelectSeq(yielded, LAMBDA y : y.entry = e)

\* the loop over the last result has run to its end
ResultExhausted == ei > Len(result.contracts)

\* C2: when the compiler reports a fatal error for a group, compile raises
\* VyperCompileError with the compiler's error as its cause, and no artifact
\* has been yielded under that group's settings key.
C2_FatalErrorWrappedNoArtifacts ==
    error.type = "VyperCompileError" =>
        /\ cpc = "raised"
        /\ error.cause \in VyperErrors
        /\ Last(invoked) = CurGroup.key
        /\ CurGroup.key \notin yieldedKeys
        /\ \A i \in 1..Len(yielded) : yielded[i].settings_key # CurGroup.key

\* the second group fails after the first one yielded artifacts
C2_Witness ==
    /\ cpc = "raised"
    /\ error.type = "VyperCompileError"
    /\ error.cause.type = "VyperError"
    /\ gi = 2
    /\ yieldedKeys = {settings[1].key}

\* C3 as stated: after a compiler failure in one group, every group with a
\* non-empty output selection has still been attempted.
C3_EveryGroupAttempted ==
    error.type = "VyperCompileError" =>
        \A i \in 1..Len(settings) :
            HasSelection(i) => settings[i].key \in Range(invoked)

\* C3 amended: a compiler failure in one group ends the compile call; the
\* groups attempted are exactly those with a non-empty output selection up
\* to and including the failing one, and none after it.
C3_FailureEndsTheCall ==
    error.type = "VyperCompileError" =>
        /\ cpc = "raised"
        /\ \A i \in 1..Len(settings) :
              settings[i].key \in Range(invoked) <=> (i <= gi /\ HasSelection(i))

\* the first group fails and a later group with an output selection is left
\* unattempted
C3_Witness ==
    /\ error.type = "VyperCompileError"
    /\ gi = 1
    /\ \E i \in 2..Len(settings) :
          HasSelection(i) /\ settings[i].key \notin Range(invoked)

\* C4: a result entry whose source id the request does not hold (neither as
\* returned nor with a separator prefixed) yields no artifact and raises no
\* error, and once the result is exhausted every other entry of the result
\* has had all of its contracts yielded.
C4_UnmatchedEntryDropped ==
    invoked # << >> =>
        \A e \in 1..Len(result.contracts) :
            Unmatched(e) =>
                /\ YieldedOf(e) = << >>
                /\ ~(cpc = "raised" /\ ei = e)
                /\ ResultExhausted =>
                      \A f \in 1..Len(result.contracts) :
                          ~Unmatched(f) =>
                              Len(YieldedOf(f))
                                  = Len(result.contracts[f].output_items)

\* the result's first entry was dropped and its second entry yielded
C4_Witness ==
    /\ cpc = "entries"
    /\ error = NoError
    /\ Len(result.contracts) = 2
    /\ Unmatched(1)
    /\ ~Unmatched(2)
    /\ ResultExhausted
    /\ YieldedOf(2) # << >>

\* C8: the sources dictionary of every request holds no file under an
\* "interfaces" directory, at any depth, and only keys of the group's
\* outputSelection.
C8_NoInterfaceSources ==
    invoked # << >> =>
    \A s \in DOMAIN input_json.sources :
        /\ ~InsideInterfacesDir(s)
        /\ s \in DOMAIN OutputSelectionOf(input_json.settings)

\* the (entry, contract) positions of the last result that match a requested
\* source, in the order the compiler returned them
RECURSIVE MatchedPositions(_, _)
MatchedPositions(e, c) ==
    IF e > Len(result.contracts) THEN << >>
    ELSE IF Unmatched(e) \/ c > Len(result.contracts[e].output_items)
    THEN MatchedPositions(e + 1, 1)
    ELSE <<[entry |-> e, contract |-> c]>> \o MatchedPositions(e, c + 1)

\* C10: every yielded pair carries the settings key of the group whose
\* compiler call produced it, and the pairs of a group come in the order of
\* the compiler's result: entries in result order, contracts of an entry in
\* result order; all of them once the result is exhausted.
C10_YieldedInResultOrder ==
    invoked # << >> =>
        LET expected == MatchedPositions(1, 1)
        IN  /\ Len(yielded) <= Len(expected)
            /\ \A i \in 1..Len(yielded) :
                  LET item == result.contracts[expected[i].entry]
                                  .output_items[expected[i].contract]
                  IN  /\ yielded[i].settings_key = Last(invoked)
                      /\ yielded[i].settings_key \in yieldedKeys
                      /\ yielded[i].entry = expected[i].entry
                      /\ yielded[i].contract_type.contractName = item.name
                      /\ yielded[i].contract_type.runtimeBytecode
                            = item.output.evm.deployedBytecode.object
            /\ ResultExhausted => Len(yielded) = Len(expected)

\* the second group's result, two entries with two contracts each given as
\* B before A, has been yielded to its end
C10_Witness ==
    /\ cpc = "entries"
    /\ Len(invoked) = 2
    /\ Len(result.contracts) = 2
    /\ ResultExhausted
    /\ Len(yielded) = 4
    /\ yielded[1].contract_type.contractName = "B"
    /\ yielded[2].contract_type.contractName = "A"

\* the contract of the result from which the pair y was built
ItemOf(y) ==
    LET items == result.contracts[y.entry].output_items
    IN  items[CHOOSE c \in 1..Len(items) : items[c].name = y.contract_type.contractName]

\* C11: for every yielded artifact, sourcemap and pcmap are both present
\* when the contract's deployed bytecode holds a source map and both absent
\* when it does not; when present, the sourcemap is the compiler's
\* compressed string unchanged, and the decompressed map handed to the
\* PC-map builder is the parsed sequence without exactly its first item.
C11_SourceMapAndPcmap ==
    \A i \in 1..Len(yielded) :
        LET y == yielded[i]
            bytecode == ItemOf(y).output.evm.deployedBytecode
            has_map == "sourceMap" \in DOMAIN bytecode
            parsed == ParseSourceMap(bytecode.sourceMap)
        IN  /\ y.contract_type.sourcemap.present <=> has_map
            /\ y.contract_type.pcmap.present <=> has_map
            /\ y.src_map.present <=> has_map
            /\ has_map =>
                  /\ y.contract_type.sourcemap.root = bytecode.sourceMap
                  /\ Len(y.src_map.items) = Len(parsed) - 1
                  /\ \A k \in 1..Len(y.src_map.items) :
                        y.src_map.items[k] = parsed[k + 1]

\* one entry yielded a contract without a source map and then one with a
\* source map of three items, two of which reached the PC-map builder
C11_Witness ==
    /\ Len(yielded) >= 2
    /\ ~yielded[1].contract_type.sourcemap.present
    /\ ~yielded[1].contract_type.pcmap.present
    /\ yielded[2].contract_type.sourcemap.present
    /\ yielded[2].contract_type.pcmap.present
    /\ yielded[2].src_map.items = << <<"0:5:0">>, <<"6:2:0">> >>

\* the result entry e names a source the request holds only under the
\* separator-prefixed form of its id
PrefixMatched(e) ==
    LET id == result.contracts[e].source_id
    IN  /\ id \notin DOMAIN src_dict
        /\ (<<"/">> \o id) \in DOMAIN src_dict

\* C14: a result entry whose source id is not a key of the request's
\* sources but whose separator-prefixed form is, is not dropped and raises
\* no error, whichever of the two ids the result's per-source section is
\* keyed by: once the loop is past it, one artifact per named contract of
\* the entry has been yielded, built from the content under the prefixed key.
C14_PrefixedEntryYields ==
    invoked # << >> =>
        \A e \in 1..Len(result.contracts) :
            PrefixMatched(e) =>
                LET key == <<"/">> \o result.contracts[e].source_id
                    items == result.contracts[e].output_items
                    content == ContentOf(src_dict[key].content)
                IN  /\ ~(cpc = "raised" /\ ei = e)
                    /\ ei > e =>
                          /\ Len(YieldedOf(e)) = Len(items)
                          /\ \A c \in 1..Len(items) :
                                LET ct == YieldedOf(e)[c].contract_type
                                IN  /\ ct.contractName = items[c].name
                                    /\ ct.sourceId = FinalSourceId(key)
                                    /\ ct.dev_messages = DevMessages(content)

\* the settings keys of the groups before position n that carry an output
\* selection, in settings-map order
RECURSIVE SelectedKeysBefore(_)
SelectedKeysBefore(n) ==
    IF n <= 1 THEN << >>
    ELSE IF HasSelection(n - 1)
    THEN Append(SelectedKeysBefore(n - 1), settings[n - 1].key)
    ELSE SelectedKeysBefore(n - 1)

\* the compiler calls made so far: none for a group without output
\* selection, one for each group with one that the loop has passed, in
\* settings-map order, and at most the group the loop is at after them
C13_Invocations ==
    \/ invoked = SelectedKeysBefore(gi)
    \/ /\ gi <= Len(settings)
       /\ HasSelection(gi)
       /\ invoked = Append(SelectedKeysBefore(gi), settings[gi].key)

\* one step of compile: a compiler call is made at the head of the loop
\* only, for the group the loop is at, whose key was not called before; the
\* loop leaves a group only when every contract of every matched entry of
\* its result has been yielded; once the consumer has stopped, no call
\* follows
C13_Step ==
    /\ invoked' # invoked =>
          /\ cpc = "group"
          /\ gi <= Len(settings)
          /\ HasSelection(gi)
          /\ settings[gi].key \notin Range(invoked)
          /\ invoked' = Append(invoked, settings[gi].key)
          /\ yielded = << >>
    /\ (cpc = "entries" /\ gi' # gi) =>
          /\ ResultExhausted
          /\ Len(yielded) = Len(MatchedPositions(1, 1))
    /\ cpc = "closed" => (cpc' = "closed" /\ invoked' = invoked)

\* C13: in one compile call the compiler is invoked at most once per
\* settings key, never for a key whose outputSelection is empty or missing,
\* and sequentially in settings-map order: the call for a group is made
\* only after every artifact of the preceding invoked group was yielded,
\* and after the consumer stops no group that was not reached is invoked.
C13_OneSequentialLazyInvocation ==
    [](C13_Invocations /\ (\A i, j \in 1..Len(invoked) :
                              invoked[i] = invoked[j] => i = j))
        /\ [][C13_Step]_vars

\* the consumer stopped after the first artifact of the first group: the
\* second group carries an output selection and was never invoked
C13_Witness ==
    /\ cpc = "closed"
    /\ gi = 1
    /\ Len(settings) = 2
    /\ HasSelection(2)
    /\ Len(yielded) = 1
    /\ invoked = <<settings[1].key>>

----------------------------------------------------------------------------
(* Properties of _classify_ast *)

RECURSIVE Preorder(_, _)
\* the nodes of a tree in depth-first order, each with its depth and its
\* number of children (which together fix the tree's shape)
Preorder(node, depth) ==
    LET RECURSIVE Kids(_)
        Kids(i) == IF i > Len(node.children) THEN << >>
                   ELSE Preorder(node.children[i], depth + 1) \o Kids(i + 1)
    IN  << [ast_type |-> node.ast_type, lineno |-> node.lineno,
            end_lineno |-> node.end_lineno,
            classification |-> node.classification,
            depth |-> depth, nchildren |-> Len(node.children)] >> \o Kids(1)

\* C12: after _classify_ast every node, at any depth, whose type tag is in
\* the function-type set has classification FUNCTION; the number of nodes,
\* the order of children, every node's type tag and line span, and the
\* classification of every node outside the set are as before.
C12_ClassifyFrame ==
    apc = "returned" =>
        LET before == Preorder(ast_dict, 1)
            after == Preorder(ast_model, 1)
        IN  /\ Len(after) = Len(before)
            /\ \A i \in 1..Len(before) :
                  /\ after[i].ast_type = before[i].ast_type
                  /\ after[i].lineno = before[i].lineno
                  /\ after[i].end_lineno = before[i].end_lineno
                  /\ after[i].depth = before[i].depth
                  /\ after[i].nchildren = before[i].nchildren
                  /\ before[i].ast_type \in FUNCTION_AST_TYPES =>
                        after[i].classification = "FUNCTION"
                  /\ before[i].ast_type \notin FUNCTION_AST_TYPES =>
                        after[i].classification = before[i].classification

\* a tree three levels deep was classified: an unclassified function node
\* at the third level became FUNCTION, and a classified node of another
\* type kept its classification
C12_Witness ==
    /\ apc = "returned"
    /\ LET before == Preorder(ast_dict, 1)
           after == Preorder(ast_model, 1)
       IN  /\ \E i \in 1..Len(before) :
                 /\ before[i].depth = 3
                 /\ before[i].ast_type = "FunctionDef"
                 /\ before[i].classification = "None"
                 /\ after[i].classification = "FUNCTION"
           /\ \E i \in 1..Len(before) :
                 /\ before[i].ast_type = "Return"
                 /\ before[i].classification = "FUNCTION"
                 /\ after[i].classification = "FUNCTION"
           /\ \E i \in 1..Len(before) :
                 /\ before[i].ast_type = "Module"
                 /\ after[i].classification = "None"

----------------------------------------------------------------------------
(* Properties of the developer-message scan *)

\* sub is a contiguous piece of str
IsPieceOf(sub, str) ==
    \E i \in 1..Len(str) : \E j \in i..Len(str) : sub = SubSeq(str, i, j)

\* C5: dev_messages has an entry for line number n exactly when line n of
\* the content matches the marker pattern; the entry is the captured text,
\* stripped: a piece of the line that starts at the marker and neither
\* starts nor ends with whitespace.
C5_DevMessagesExactlyMarkerLines ==
    dpc = "scanned" =>
        LET content == ContentOf(text)
        IN  /\ DOMAIN dev_messages \subseteq 1..Len(content)
            /\ \A n \in 1..Len(content) :
                  /\ (n \in DOMAIN dev_messages) <=> DevMatch(content[n])
                  /\ DevMatch(content[n]) =>
                        /\ dev_messages[n] = Strip(DevGroup(content[n]))
                        /\ Head(dev_messages[n]) = "dev:"
                        /\ ~IsSpace(Last(dev_messages[n]))
                        /\ IsPieceOf(dev_messages[n], content[n])

\* a text whose second line carries a marker followed by text and a blank,
\* and whose first line carries none
C5_Witness ==
    /\ dpc = "scanned"
    /\ Len(ContentOf(text)) = 2
    /\ DOMAIN dev_messages = {2}
    /\ dev_messages[2] = <<"dev:", "x">>
    /\ Last(ContentOf(text)[2]) = " "

----------------------------------------------------------------------------
(* Specifications *)

SettingsIdle ==
    /\ spc = "idle"
    /\ version = "0.3.7"
    /\ source_paths = << >>
    /\ disk_files = {}
    /\ optimizations_map = << >>
    /\ evm_version_map = << >>
    /\ config_evm_version = PyNone
    /\ output_selection = << >>
    /\ version_settings = << >>

InitSettings ==
    /\ spc = "call"
    /\ version \in Versions
    /\ \E ids \in DistinctOnly(SeqsUpTo(SettingsSourceIds, MaxSources)) :
          /\ source_paths = [i \in 1..Len(ids) |-> PathJoin(ProjectPath, ids[i])]
          /\ disk_files \in SUBSET Range(ids)
          /\ optimizations_map \in PartialFns(Range(ids), OptimizationValues)
          /\ evm_version_map \in PartialFns(Range(ids), EvmVersionValues)
    /\ config_evm_version \in ConfigEvmVersions
    \* with a configured value the version's default is never read
    /\ Truthy(config_evm_version) => version = "0.3.7"
    /\ output_selection = << >>
    /\ version_settings = << >>

CompileIdle ==
    /\ cpc = "idle"
    /\ suspended = FALSE
    /\ settings = << >>
    /\ gi = 1
    /\ input_json = NoRequest
    /\ result = NoResult
    /\ ei = 1
    /\ ci = 1
    /\ yielded = << >>
    /\ yieldedKeys = {}
    /\ invoked = << >>
    /\ error = NoError

\* compile is called: the generator exists and has not run yet
InitCompile ==
    /\ cpc = "group"
    /\ suspended = TRUE
    /\ \E sets \in SeqsUpTo(SettingsSets, MaxGroups) :
          settings = [i \in 1..Len(sets) |->
                         [key |-> SettingsKeys[i], settings_set |-> sets[i]]]
    /\ gi = 1
    /\ input_json = NoRequest
    /\ result = NoResult
    /\ ei = 1
    /\ ci = 1
    /\ yielded = << >>
    /\ yieldedKeys = {}
    /\ invoked = << >>
    /\ error = NoError

DevIdle ==
    /\ dpc = "idle"
    /\ text = << >>
    /\ dev_messages = << >>

TextWords == {"x", " ", "dev:", "\n"}

\* a source text has been read into the sources dictionary
InitDev ==
    /\ dpc = "read"
    /\ text \in SeqsUpTo(TextWords, MaxTextLen)
    /\ dev_messages = << >>

AstIdle ==
    /\ apc = "idle"
    /\ ast_dict = NoAst
    /\ ast_model = NoAst

\* _parse_ast is called with a tree of the compiler's result
InitAst ==
    /\ apc = "call"
    /\ \E n \in 1..MaxAstNodes : ast_dict \in AstTrees(n)
    /\ ast_model = ast_dict

InitS == InitSettings /\ CompileIdle /\ DevIdle /\ AstIdle

InitD == SettingsIdle /\ CompileIdle /\ InitDev /\ AstIdle

InitA == SettingsIdle /\ CompileIdle /\ DevIdle /\ InitAst

NextAst == ParseAst

SpecAst == InitA /\ [][NextAst]_vars

NextDev == ScanDevMessages

SpecDev == InitD /\ [][NextDev]_vars

NextSettings == GetSettings

SpecSettings == InitS /\ [][NextSettings]_vars

Init == SettingsIdle /\ InitCompile /\ DevIdle /\ AstIdle

Next ==
    \/ SkipGroup
    \/ InvokeCompiler
    \/ CompilerFails
    \/ ReadFails
    \/ Finish
    \/ DropEntry
    \/ YieldArtifact
    \/ SourcesKeyError
    \/ EndGroup
    \/ Close

Spec == Init /\ [][Next]_vars

====
